---- MODULE Spec2Model ----
(***************************************************************************)
(* The two smoke-test scripts of claude-wrapper, app/test-large-stdin.py   *)
(* and app/test-stdin.py, as one state machine.  A behaviour is one run of *)
(* one script: the module-level construction (filler string, tool list),   *)
(* then test_stdin_implementation() statement by statement, with the       *)
(* endpoint's answer (a status and a body, or an exception raised by       *)
(* requests.post) as the only input.                                       *)
(*                                                                         *)
(* Python strings are TLA+ strings.  Python objects that travel through    *)
(* JSON are tagged records [t, v]: str, int, bool, None, list (a sequence) *)
(* and dict (a sequence of <<key, value>> pairs in insertion order).       *)
(* The two emoji the scripts print cannot be written in a TLA+ string and  *)
(* are written as their code points.                                       *)
(***************************************************************************)
EXTENDS Integers, Sequences, FiniteSets, TLC

VARIABLES
    script,         \* which script runs: "large" (test-large-stdin.py) or "tools" (test-stdin.py)
    pc,             \* the statement about to execute
    large_content,  \* module global: the filler string ("" until line 6 has run)
    large_tools,    \* module global of test-stdin.py: the tool list (a sequence of dicts)
    i,              \* the loop variable of `for i in range(50)`
    payload,        \* local of test_stdin_implementation
    sent,           \* the HTTP requests issued so far, in order
    received,       \* what a JSON decoder reads from the body of each request sent
    response,       \* local: the Response object requests.post returned
    result,         \* local: what response.json() returned
    jsonCalls,      \* how many times response.json() was called
    exc,            \* the exception raised inside the try block, if any
    out,            \* the lines printed to standard output, in order
    exitCode        \* the process exit code once the interpreter has exited

vars == <<script, pc, large_content, large_tools, i, payload, sent, received,
          response, result, jsonCalls, exc, out, exitCode>>

(***************************************************************************)
(* Strings                                                                 *)
(***************************************************************************)
\* the character at position p (from 1), "" outside the string
Char(s, p) == IF 1 <= p /\ p <= Len(s) THEN SubSeq(s, p, p) ELSE ""

\* F(a) with a evaluated once, before the body of F.  TLC evaluates the
\* definitions of a LET and the arguments of an operator where they are used,
\* and inside ENABLED once more at every use; the recursive operators below bind
\* what they use more than once with Strict.
Strict(F(_), a) == CHOOSE y \in {F(v) : v \in {a}} : TRUE

\* s * n for a string s: n copies of s, built by doubling.
RECURSIVE StrMul(_, _)
StrMul(s, n) ==
    IF n <= 0 THEN ""
    ELSE IF n = 1 THEN s
    ELSE CHOOSE y \in {IF n % 2 = 0 THEN h \o h ELSE h \o h \o s :
                          h \in {StrMul(s, n \div 2)}} : TRUE

\* s[:n] for a string or a sequence
Prefix(s, n) == SubSeq(s, 1, IF n < Len(s) THEN n ELSE Len(s))

StartsWith(s, p, w) ==
    /\ 1 <= p
    /\ p + Len(w) - 1 <= Len(s)
    /\ SubSeq(s, p, p + Len(w) - 1) = w

\* sub in s
Contains(s, sub) ==
    \E k \in 1..(Len(s) - Len(sub) + 1) : StartsWith(s, k, sub)

\* how many positions of s hold the character c
CountChar(s, c) == Cardinality({k \in 1..Len(s) : Char(s, k) = c})

DigitChars == <<"0", "1", "2", "3", "4", "5", "6", "7", "8", "9">>

IsDigit(c) == \E d \in 1..10 : DigitChars[d] = c

DigitValue(c) == (CHOOSE d \in 1..10 : DigitChars[d] = c) - 1

\* str(n) for an int n: its decimal digits
RECURSIVE IntStr(_)
IntStr(n) ==
    IF n < 0 THEN "-" \o IntStr(0 - n)
    ELSE IF n < 10 THEN DigitChars[n + 1]
    ELSE IntStr(n \div 10) \o DigitChars[(n % 10) + 1]

(***************************************************************************)
(* Python values                                                           *)
(***************************************************************************)
PyStr(s)   == [t |-> "str",  v |-> s]
PyInt(n)   == [t |-> "int",  v |-> n]
PyBool(b)  == [t |-> "bool", v |-> b]
PyList(es) == [t |-> "list", v |-> es]
PyDict(ms) == [t |-> "dict", v |-> ms]
PyNone     == [t |-> "None", v |-> 0]

NoExc == [type |-> "", msg |-> ""]
Ok(v) == [ok |-> TRUE, v |-> v, exc |-> NoExc]
Raise(type, msg) == [ok |-> FALSE, v |-> PyNone, exc |-> [type |-> type, msg |-> msg]]

TypeName(v) == IF v.t = "None" THEN "NoneType" ELSE v.t

HasKey(ms, k) == \E j \in 1..Len(ms) : ms[j][1] = k

DictGet(ms, k) == ms[CHOOSE j \in 1..Len(ms) : ms[j][1] = k][2]

\* d[k] = v on a dict: a new key goes last, an old key keeps its place
DictSet(ms, k, v) ==
    IF HasKey(ms, k)
    THEN [j \in 1..Len(ms) |-> IF ms[j][1] = k THEN <<k, v>> ELSE ms[j]]
    ELSE Append(ms, <<k, v>>)

\* repr() of a str: in single quotes, or in double quotes when the string holds
\* a single quote and no double quote; the quote in use and the backslash escaped
ReprChar(c, q) ==
    CASE c = q    -> "\\" \o q
      [] c = "\\" -> "\\\\"
      [] c = "\n" -> "\\n"
      [] c = "\t" -> "\\t"
      [] OTHER    -> c

RECURSIVE ReprBody(_, _)
ReprBody(s0, q) ==
    Strict(LAMBDA s :
        IF Len(s) = 0 THEN ""
        ELSE IF Len(s) = 1 THEN ReprChar(s, q)
        ELSE ReprBody(SubSeq(s, 1, Len(s) \div 2), q)
             \o ReprBody(SubSeq(s, Len(s) \div 2 + 1, Len(s)), q),
      s0)

StrRepr(s) ==
    LET q == IF Contains(s, "'") /\ ~Contains(s, "\"") THEN "\"" ELSE "'"
    IN q \o ReprBody(s, q) \o q

\* repr() of a value; str() of anything but a str is its repr
RECURSIVE Repr(_), ReprItems(_, _, _), ReprMembers(_, _, _)
Repr(v0) ==
    Strict(LAMBDA v :
        CASE v.t = "str"  -> StrRepr(v.v)
          [] v.t = "int"  -> IntStr(v.v)
          [] v.t = "bool" -> (IF v.v THEN "True" ELSE "False")
          [] v.t = "None" -> "None"
          [] v.t = "list" -> "[" \o ReprItems(v.v, 1, Len(v.v)) \o "]"
          [] v.t = "dict" -> "{" \o ReprMembers(v.v, 1, Len(v.v)) \o "}",
      v0)
\* the items lo..hi of a list, joined by ", "
ReprItems(es, lo0, hi0) ==
    Strict(LAMBDA a :
        LET lo == a[1]  hi == a[2]  mid == (a[1] + a[2]) \div 2
        IN IF lo > hi THEN ""
           ELSE IF lo = hi THEN Repr(es[lo])
           ELSE ReprItems(es, lo, mid) \o ", " \o ReprItems(es, mid + 1, hi),
      <<lo0, hi0>>)
\* the members lo..hi of a dict, joined by ", "
ReprMembers(ms, lo0, hi0) ==
    Strict(LAMBDA a :
        LET lo == a[1]  hi == a[2]  mid == (a[1] + a[2]) \div 2
        IN IF lo > hi THEN ""
           ELSE IF lo = hi THEN StrRepr(ms[lo][1]) \o ": " \o Repr(ms[lo][2])
           ELSE ReprMembers(ms, lo, mid) \o ", " \o ReprMembers(ms, mid + 1, hi),
      <<lo0, hi0>>)

\* how an f-string formats {v}
Format(v) == IF v.t = "str" THEN v.v ELSE Repr(v)

\* v[k] for a str key k
SubscriptKey(v, k) ==
    CASE v.t = "dict" ->
            IF HasKey(v.v, k) THEN Ok(DictGet(v.v, k))
            ELSE Raise("KeyError", StrRepr(k))
      [] v.t = "list" ->
            Raise("TypeError", "list indices must be integers or slices, not str")
      [] v.t = "str" ->
            Raise("TypeError", "string indices must be integers, not 'str'")
      [] OTHER ->
            Raise("TypeError", "'" \o TypeName(v) \o "' object is not subscriptable")

\* v[n] for an int n >= 0
SubscriptIndex(v, n) ==
    CASE v.t = "list" ->
            IF n < Len(v.v) THEN Ok(v.v[n + 1])
            ELSE Raise("IndexError", "list index out of range")
      [] v.t = "str" ->
            IF n < Len(v.v) THEN Ok(PyStr(Char(v.v, n + 1)))
            ELSE Raise("IndexError", "string index out of range")
      [] v.t = "dict" -> Raise("KeyError", IntStr(n))
      [] OTHER ->
            Raise("TypeError", "'" \o TypeName(v) \o "' object is not subscriptable")

\* as if the slice were dropped: the whole value
SliceTo_Whole(v, n) ==
    IF v.t \in {"str", "list"} THEN Ok(v)
    ELSE Raise("TypeError", "'" \o TypeName(v) \o "' object is not subscriptable")

\* v[:n]
SliceTo(v, n) ==
    CASE v.t = "str"  -> Ok(PyStr(Prefix(v.v, n)))
      [] v.t = "list" -> Ok(PyList(Prefix(v.v, n)))
      [] v.t = "dict" -> Raise("TypeError", "unhashable type: 'slice'")
      [] OTHER ->
            Raise("TypeError", "'" \o TypeName(v) \o "' object is not subscriptable")

\* len(v)
PyLen(v) ==
    IF v.t \in {"str", "list", "dict"} THEN Ok(PyInt(Len(v.v)))
    ELSE Raise("TypeError", "object of type '" \o TypeName(v) \o "' has no len()")

\* `except Exception` catches every class below Exception; KeyboardInterrupt and
\* SystemExit derive from BaseException only.
ExceptionClasses ==
    {"ConnectionError", "Timeout", "JSONDecodeError",
     "KeyError", "IndexError", "TypeError"}

\* as if the handler were `except requests.RequestException`
IsRequestException(e) == e.type \in {"ConnectionError", "Timeout", "JSONDecodeError"}

IsInstanceOfException(e) == e.type \in ExceptionClasses

(***************************************************************************)
(* json.dumps, as requests.post(json=...) calls it: default separators     *)
(* ", " and ": ", dict members in insertion order.  The encoder writes its *)
(* output chunk by chunk; what is still to be written is a stack of texts  *)
(* and values, the next one first.                                         *)
(***************************************************************************)
EscapeChar(c) ==
    CASE c = "\"" -> "\\\""
      [] c = "\\" -> "\\\\"
      [] c = "\n" -> "\\n"
      [] c = "\t" -> "\\t"
      [] OTHER    -> c

Specials == {"\"", "\\", "\n", "\t"}

\* the least element of a set of positions, or 0 when there is none
Least(S0) ==
    Strict(LAMBDA S : IF S = {} THEN 0 ELSE CHOOSE k \in S : \A j \in S : k <= j, S0)

\* the position of the first character of s that has an escape, or 0
FirstSpecial(s) == Least({k \in 1..Len(s) : Char(s, k) \in Specials})

RECURSIVE EscapeStr(_)
EscapeStr(s0) ==
    Strict(LAMBDA s :
        Strict(LAMBDA k :
            IF k = 0 THEN s
            ELSE SubSeq(s, 1, k - 1) \o EscapeChar(Char(s, k))
                 \o EscapeStr(SubSeq(s, k + 1, Len(s))),
          FirstSpecial(s)),
      s0)

JsonString(s) == "\"" \o EscapeStr(s) \o "\""

\* the encoding of a value that is not a container
DumpScalar(v) ==
    CASE v.t = "str"  -> JsonString(v.v)
      [] v.t = "int"  -> IntStr(v.v)
      [] v.t = "bool" -> (IF v.v THEN "true" ELSE "false")
      [] v.t = "None" -> "null"

Text(s)  == [k |-> "text",  s |-> s,  v |-> PyNone]
Value(v) == [k |-> "value", s |-> "", v |-> v]

\* what a list is written as: "[", its items with ", " between them, "]"
ListChunks(es) ==
    IF Len(es) = 0 THEN <<Text("[]")>>
    ELSE <<Text("[")>>
         \o [j \in 1..(2 * Len(es) - 1) |->
                IF j % 2 = 1 THEN Value(es[(j + 1) \div 2]) ELSE Text(", ")]
         \o <<Text("]")>>

\* what a dict is written as: "{", each member as "key": value, ", " between
\* the members, "}"
DictChunks(ms) ==
    IF Len(ms) = 0 THEN <<Text("{}")>>
    ELSE <<Text("{")>>
         \o [j \in 1..(3 * Len(ms) - 1) |->
                CASE j % 3 = 1 -> Text(JsonString(ms[(j + 2) \div 3][1]) \o ": ")
                  [] j % 3 = 2 -> Value(ms[(j + 2) \div 3][2])
                  [] OTHER     -> Text(", ")]
         \o <<Text("}")>>

\* the encoder writes the next chunk, or opens the container that is next
DumpStep(st) ==
    LET top  == Head(st.todo)
        rest == Tail(st.todo)
    IN IF Len(st.todo) = 0 THEN st
       ELSE IF top.k = "text" THEN [todo |-> rest, out |-> st.out \o top.s]
       ELSE IF top.v.t = "list" THEN [todo |-> ListChunks(top.v.v) \o rest, out |-> st.out]
       ELSE IF top.v.t = "dict" THEN [todo |-> DictChunks(top.v.v) \o rest, out |-> st.out]
       ELSE [todo |-> rest, out |-> st.out \o DumpScalar(top.v)]

\* 2^k steps of the encoder from state st, or fewer when nothing is left to
\* write: half of them, then the rest
RECURSIVE DumpRun(_, _)
DumpRun(st, k) ==
    IF k = 0 THEN DumpStep(st)
    ELSE CHOOSE y \in {IF Len(h.todo) = 0 THEN h ELSE DumpRun(h, k - 1) :
                          h \in {DumpRun(st, k - 1)}} : TRUE

\* the encoder run until nothing is left to write: 2^k steps, then four times
\* as many, ...
RECURSIVE DumpLoop(_, _)
DumpLoop(st, k) ==
    CHOOSE y \in {IF Len(h.todo) = 0 THEN h ELSE DumpLoop(h, k + 2) :
                     h \in {DumpRun(st, k)}} : TRUE

JsonDumps(v) == DumpLoop([todo |-> <<Value(v)>>, out |-> ""], 12).out

(***************************************************************************)
(* json.loads, as response.json() and the endpoint call it.  The result of *)
(* reading a string or a number is [ok, v, p, msg]: the value and the      *)
(* position after it, or the decoder's message and the position it         *)
(* complains about.  The decoder's recursion over nested containers is     *)
(* kept as a stack of open containers.  Floats and \uXXXX escapes are      *)
(* outside the alphabet the model draws bodies from.                       *)
(***************************************************************************)
Parsed(v, p)  == [ok |-> TRUE,  v |-> v,      p |-> p, msg |-> ""]
Failed(msg, p) == [ok |-> FALSE, v |-> PyNone, p |-> p, msg |-> msg]

IsWs(c) == c \in {" ", "\t", "\n", "\r"}

RECURSIVE SkipWs(_, _)
SkipWs(s, p0) ==
    Strict(LAMBDA p :
        IF p <= Len(s) /\ IsWs(Char(s, p)) THEN SkipWs(s, p + 1) ELSE p,
      p0)

\* the number of consecutive backslashes that end at position j, from lo on
RECURSIVE BackslashRun(_, _, _)
BackslashRun(s, lo, j) ==
    IF j >= lo /\ Char(s, j) = "\\" THEN 1 + BackslashRun(s, lo, j - 1) ELSE 0

\* a quote closes the string unless an odd run of backslashes escapes it
IsClosingQuote(s, start, j) ==
    Char(s, j) = "\"" /\ BackslashRun(s, start, j - 1) % 2 = 0

\* the first closing quote in lo..hi of a string whose body starts at start, or 0
QuoteIn(s, start, lo, hi) ==
    Least({j \in lo..(IF hi < Len(s) THEN hi ELSE Len(s)) : IsClosingQuote(s, start, j)})

\* the first closing quote from lo on, or 0: looked for among the next 16
\* characters, then among the next 1024, then in all that is left
FirstClosingQuote(s, start, lo) ==
    LET near == QuoteIn(s, start, lo, lo + 15)
        far  == QuoteIn(s, start, lo + 16, lo + 1023)
    IN IF near # 0 THEN near
       ELSE IF far # 0 THEN far
       ELSE QuoteIn(s, start, lo + 1024, Len(s))

\* the first backslash of raw from position from on, or 0
FirstBackslash(raw, from) == Least({k \in from..Len(raw) : Char(raw, k) = "\\"})

EscapeLetters == {"\"", "\\", "/", "n", "t"}

UnescapeLetter(c) ==
    CASE c = "n" -> "\n"
      [] c = "t" -> "\t"
      [] OTHER   -> c

\* the text between the quotes, from position from on, with its escapes undone:
\* [ok, s, at], at being the position of a backslash that escapes nothing
RECURSIVE Unescape(_, _)
Unescape(raw0, from) ==
    Strict(LAMBDA raw :
        Strict(LAMBDA k :
            IF k = 0 THEN [ok |-> TRUE, s |-> SubSeq(raw, from, Len(raw)), at |-> 0]
            ELSE IF Char(raw, k + 1) \notin EscapeLetters
                 THEN [ok |-> FALSE, s |-> "", at |-> k]
            ELSE Strict(LAMBDA rest :
                     IF ~rest.ok THEN rest
                     ELSE [ok |-> TRUE,
                           s  |-> SubSeq(raw, from, k - 1)
                                  \o UnescapeLetter(Char(raw, k + 1)) \o rest.s,
                           at |-> 0],
                   Unescape(raw, k + 2)),
          FirstBackslash(raw, from)),
      raw0)

\* s[p] is the opening quote
ParseString(s, p) ==
    Strict(LAMBDA close :
        IF close = 0 THEN Failed("Unterminated string starting at", p)
        ELSE Strict(LAMBDA u :
                 IF u.ok THEN Parsed(PyStr(u.s), close + 1)
                 ELSE Failed("Invalid \\escape", p + u.at),
               Unescape(SubSeq(s, p + 1, close - 1), 1)),
      FirstClosingQuote(s, p + 1, p + 1))

RECURSIVE DigitsEnd(_, _)
DigitsEnd(s, p0) ==
    Strict(LAMBDA p :
        IF p <= Len(s) /\ IsDigit(Char(s, p)) THEN DigitsEnd(s, p + 1) ELSE p,
      p0)

RECURSIVE DigitsValue(_, _, _)
DigitsValue(s, lo, hi0) ==
    Strict(LAMBDA hi :
        IF lo > hi THEN 0
        ELSE 10 * DigitsValue(s, lo, hi - 1) + DigitValue(Char(s, hi)),
      hi0)

\* s[p] is a digit or a minus sign
ParseInt(s, p0) ==
    Strict(LAMBDA p :
        LET neg   == Char(s, p) = "-"
            first == IF Char(s, p) = "-" THEN p + 1 ELSE p
        IN Strict(LAMBDA end :
               IF end = first THEN Failed("Expecting value", p)
               ELSE Strict(LAMBDA n : Parsed(PyInt(IF neg THEN 0 - n ELSE n), end),
                      DigitsValue(s, first, end - 1)),
             IF Char(s, first) = "0" THEN first + 1 ELSE DigitsEnd(s, first)),
      p0)

\* The decoder's state: in mode "value" it is about to read a value at p; in
\* mode "reduce" it has read the value v, which ended before p, and hands it to
\* the innermost open container; "done" and "failed" end the run.  An open
\* container is [kind, acc, key]: what it holds so far and, for an object, the
\* key whose value is being read.
Frame(kind, acc, key) == [kind |-> kind, acc |-> acc, key |-> key]

Decoding(mode, p, stack, v) ==
    [mode |-> mode, p |-> p, stack |-> stack, v |-> v, msg |-> ""]

Broken(msg, p) ==
    [mode |-> "failed", p |-> p, stack |-> <<>>, v |-> PyNone, msg |-> msg]

\* a string or a number was read, or was not
AfterScalar(r, stack) ==
    IF r.ok THEN Decoding("reduce", r.p, stack, r.v) ELSE Broken(r.msg, r.p)

\* "key" and ":" at position q of an object that holds acc so far; the value of
\* the member is read next
ReadKey(s, q, stack, acc) ==
    IF Char(s, q) # "\""
    THEN Broken("Expecting property name enclosed in double quotes", q)
    ELSE Strict(LAMBDA k :
             IF ~k.ok THEN Broken(k.msg, k.p)
             ELSE Strict(LAMBDA c :
                      IF Char(s, c) # ":" THEN Broken("Expecting ':' delimiter", c)
                      ELSE Decoding("value", SkipWs(s, c + 1),
                                    <<Frame("object", acc, k.v.v)>> \o stack, PyNone),
                    SkipWs(s, k.p)),
           ParseString(s, q))

\* a value starts at st.p
ValueStep(s, st) ==
    LET p == st.p
        c == Char(s, st.p)
        q == SkipWs(s, st.p + 1)
    IN CASE c = "\"" -> Strict(LAMBDA r : AfterScalar(r, st.stack), ParseString(s, p))
         [] c = "{" ->
              IF Char(s, q) = "}" THEN Decoding("reduce", q + 1, st.stack, PyDict(<<>>))
              ELSE ReadKey(s, q, st.stack, <<>>)
         [] c = "[" ->
              IF Char(s, q) = "]" THEN Decoding("reduce", q + 1, st.stack, PyList(<<>>))
              ELSE Decoding("value", q, <<Frame("array", <<>>, "")>> \o st.stack, PyNone)
         [] c = "-" \/ IsDigit(c) ->
              Strict(LAMBDA r : AfterScalar(r, st.stack), ParseInt(s, p))
         [] StartsWith(s, p, "null")  -> Decoding("reduce", p + 4, st.stack, PyNone)
         [] StartsWith(s, p, "true")  -> Decoding("reduce", p + 4, st.stack, PyBool(TRUE))
         [] StartsWith(s, p, "false") -> Decoding("reduce", p + 5, st.stack, PyBool(FALSE))
         [] OTHER -> Broken("Expecting value", p)

\* the value st.v is complete: it is the document, or it goes into the innermost
\* open container, which then goes on after "," or closes; a repeated key keeps
\* its last value
ReduceStep(s, st) ==
    IF Len(st.stack) = 0 THEN [st EXCEPT !.mode = "done"]
    ELSE LET top  == Head(st.stack)
             rest == Tail(st.stack)
         IN Strict(LAMBDA q :
                IF top.kind = "array"
                THEN IF Char(s, q) = ","
                     THEN Decoding("value", SkipWs(s, q + 1),
                                   <<Frame("array", Append(top.acc, st.v), "")>> \o rest,
                                   PyNone)
                     ELSE IF Char(s, q) = "]"
                     THEN Decoding("reduce", q + 1, rest, PyList(Append(top.acc, st.v)))
                     ELSE Broken("Expecting ',' delimiter", q)
                ELSE IF Char(s, q) = ","
                     THEN ReadKey(s, SkipWs(s, q + 1), rest, DictSet(top.acc, top.key, st.v))
                     ELSE IF Char(s, q) = "}"
                     THEN Decoding("reduce", q + 1, rest,
                                   PyDict(DictSet(top.acc, top.key, st.v)))
                     ELSE Broken("Expecting ',' delimiter", q),
              SkipWs(s, st.p))

Ended(st) == st.mode \in {"done", "failed"}

DecodeStep(s, st) ==
    IF st.mode = "value" THEN ValueStep(s, st)
    ELSE IF st.mode = "reduce" THEN ReduceStep(s, st)
    ELSE st

\* 2^k steps of the decoder from state st, or fewer when the run ends: half of
\* them, then the rest
RECURSIVE DecodeRun(_, _, _)
DecodeRun(s, st, k) ==
    IF k = 0 THEN DecodeStep(s, st)
    ELSE CHOOSE y \in {IF Ended(h) THEN h ELSE DecodeRun(s, h, k - 1) :
                          h \in {DecodeRun(s, st, k - 1)}} : TRUE

\* every value of a document starts the document or follows a "[", a "," or a
\* ":", so a document holds at most this many values
ValueStarts(s) == 1 + Cardinality({k \in 1..Len(s) : Char(s, k) \in {"[", ",", ":"}})

\* the least k with 2^k >= n
RECURSIVE Levels(_)
Levels(n) == IF n <= 1 THEN 0 ELSE 1 + Levels((n + 1) \div 2)

\* json.loads(s): one value, then nothing but whitespace.  The decoder takes
\* two steps for a value, one to read it and one to hand it on.
JsonLoads(s0) ==
    Strict(LAMBDA s :
        Strict(LAMBDA k :
            Strict(LAMBDA st :
                IF st.mode = "failed" THEN Failed(st.msg, st.p)
                ELSE Strict(LAMBDA end :
                         IF end <= Len(s) THEN Failed("Extra data", end)
                         ELSE Parsed(st.v, st.p),
                       SkipWs(s, st.p)),
              DecodeRun(s, Decoding("value", SkipWs(s, 1), <<>>, PyNone), k)),
          Levels(2 * ValueStarts(s))),
      s0)

\* str(e) of the decoder's exception; the model's bodies are one line long
DecodeErrorStr(r) ==
    r.msg \o ": line 1 column " \o IntStr(r.p) \o " (char " \o IntStr(r.p - 1) \o ")"

(***************************************************************************)
(* The scripts' literals                                                   *)
(***************************************************************************)
Scripts == {"large", "tools"}

NumTools   == 50     \* range(50)
DescFill   == 500    \* 'x' * 500
PrefixLen  == 100    \* large_content[:100]
ExcerptLen == 200    \* [:200]
HTTP_OK    == 200    \* response.status_code == 200

\* as if a kilobyte were 1000 bytes
FillerSize_Decimal == 60 * 1000

FillerSize == 60 * 1024

URL == "http://localhost:8080/v1/chat/completions"

Headers == << <<"Content-Type", "application/json">> >>

SuccessMark == "<U+2705>"
FailMark    == "<U+274C>"

SuccessLine(sc) ==
    IF sc = "large"
    THEN SuccessMark \o " Success! Large prompt handled correctly"
    ELSE SuccessMark \o " Success! Stdin implementation working"

\* the dict appended in iteration k of the construction loop
ToolDef(k) ==
    PyDict(<<
        <<"type", PyStr("function")>>,
        <<"function", PyDict(<<
            <<"name", PyStr("large_tool_" \o IntStr(k))>>,
            <<"description",
              PyStr("This is a large tool description that simulates real MCP tool contexts. "
                    \o StrMul("x", DescFill))>>,
            <<"parameters", PyDict(<<
                <<"type", PyStr("object")>>,
                <<"properties", PyDict(<<
                    <<"param1", PyDict(<<
                        <<"type", PyStr("string")>>,
                        <<"description", PyStr("Parameter 1")>> >>)>>,
                    <<"param2", PyDict(<<
                        <<"type", PyStr("number")>>,
                        <<"description", PyStr("Parameter 2")>> >>)>> >>)>>,
                <<"required", PyList(<<PyStr("param1"), PyStr("param2")>>)>> >>)>> >>)>> >>)

\* as if the [:100] were missing: the whole filler goes into the message
MessageContent_Whole(sc, filler) ==
    IF sc = "large"
    THEN "This is a large content test. Content length: " \o IntStr(Len(filler))
         \o " bytes. First 100 chars: " \o filler
    ELSE "Process this large content (first 100 chars): " \o filler

\* the f-string of the message's content
MessageContent(sc, filler) ==
    IF sc = "large"
    THEN "This is a large content test. Content length: " \o IntStr(Len(filler))
         \o " bytes. First 100 chars: " \o Prefix(filler, PrefixLen)
    ELSE "Process this large content (first 100 chars): " \o Prefix(filler, PrefixLen)

\* the payload dict literal
BuildPayloadValue(sc, filler, tools) ==
    LET message == PyDict(<< <<"role", PyStr("user")>>,
                             <<"content", PyStr(MessageContent(sc, filler))>> >>)
        base    == << <<"model", PyStr("sonnet")>>,
                      <<"messages", PyList(<<message>>)>> >>
    IN IF sc = "large" THEN PyDict(base)
       ELSE PyDict(Append(base, <<"tools", PyList(tools)>>))

\* as if the call were requests.post(url, data=payload, ...): the dict goes out
\* form-encoded, key by key, instead of as JSON
PostRequest_Data(p) ==
    [method |-> "POST", url |-> URL, headers |-> Headers,
     body |-> "model=sonnet&messages=role&messages=content"]

\* the request requests.post(url, json=payload, headers=...) puts on the wire
PostRequest(p) ==
    [method |-> "POST", url |-> URL, headers |-> Headers, body |-> JsonDumps(p)]

\* result["choices"][0]["message"]["content"]
ExtractContent(r) ==
    LET a == SubscriptKey(r, "choices")
    IN IF ~a.ok THEN a
       ELSE LET b == SubscriptIndex(a.v, 0)
            IN IF ~b.ok THEN b
               ELSE LET c == SubscriptKey(b.v, "message")
                    IN IF ~c.ok THEN c ELSE SubscriptKey(c.v, "content")

\* the argument of the print after response.json(): [ok, v |-> the line, exc]
ResultLine(sc, r) ==
    LET c == ExtractContent(r)
    IN IF ~c.ok THEN c
       ELSE IF sc = "large"
            THEN LET e == SliceTo(c.v, ExcerptLen)
                 IN IF ~e.ok THEN e
                    ELSE Ok(PyStr("Response: " \o Format(e.v) \o "..."))
            ELSE LET n == PyLen(c.v)
                 IN IF ~n.ok THEN n
                    ELSE Ok(PyStr("Response length: " \o Format(n.v)))

(***************************************************************************)
(* What the endpoint may do                                                *)
(***************************************************************************)
Slack == 1

StatusCodes == {HTTP_OK, 201, 404, 500}

\* a well-formed completion whose content is c
Completion(c) ==
    JsonDumps(PyDict(<< <<"choices", PyList(<<
        PyDict(<< <<"message", PyDict(<< <<"content", c>> >>)>> >>) >>)>> >>))

HelloBody == "{\"choices\":[{\"message\":{\"content\":\"hello\"}}]}"

WellFormedBodies ==
    {HelloBody, Completion(PyStr(""))}
    \cup {Completion(PyStr(StrMul("a", n))) :
            n \in (ExcerptLen - Slack)..(ExcerptLen + Slack)}

OtherBodies ==
    {"server error", "", "{\"choices\": [", "{}", "[]", "null",
     "{\"error\": \"overloaded\"}",
     "{\"choices\": []}", "{\"choices\": \"abc\"}", "{\"choices\": [{}]}",
     "{\"choices\": [{\"message\": {}}]}",
     Completion(PyNone), Completion(PyInt(7)),
     Completion(PyList(<<PyStr("a"), PyStr("b")>>))}

Bodies == WellFormedBodies \cup OtherBodies

PostExceptions ==
    {[type |-> "ConnectionError", msg |-> "Connection refused"],
     [type |-> "Timeout",         msg |-> "Read timed out."]}

NoResponse == [status_code |-> 0, text |-> ""]

(***************************************************************************)
(* The run                                                                 *)
(***************************************************************************)
Init ==
    /\ script \in Scripts
    /\ pc = "content"
    /\ large_content = ""
    /\ large_tools = <<>>
    /\ i = -1
    /\ payload = PyNone
    /\ sent = <<>>
    /\ received = <<>>
    /\ response = NoResponse
    /\ result = PyNone
    /\ jsonCalls = 0
    /\ exc = NoExc
    /\ out = <<>>
    /\ exitCode = -1

\* large_content = 'x' * (60 * 1024)
BuildContent ==
    /\ pc = "content"
    /\ large_content' = StrMul("x", FillerSize)
    /\ pc' = IF script = "tools" THEN "loop" ELSE "main"
    /\ UNCHANGED <<script, large_tools, i, payload, sent, received, response,
                   result, jsonCalls, exc, out, exitCode>>

\* as if the loop were for i in range(1, 51)
LoopAppend_FromOne ==
    /\ pc = "loop"
    /\ i + 1 < NumTools
    /\ i' = i + 1
    /\ large_tools' = Append(large_tools, ToolDef(i' + 1))
    /\ UNCHANGED <<script, pc, large_content, payload, sent, received, response,
                   result, jsonCalls, exc, out, exitCode>>

\* large_tools = [] has run; one iteration of for i in range(50): large_tools.append(...)
LoopAppend ==
    /\ pc = "loop"
    /\ i + 1 < NumTools
    /\ i' = i + 1
    /\ large_tools' = Append(large_tools, ToolDef(i'))
    /\ UNCHANGED <<script, pc, large_content, payload, sent, received, response,
                   result, jsonCalls, exc, out, exitCode>>

\* range(50) is exhausted
LoopExit ==
    /\ pc = "loop"
    /\ i + 1 >= NumTools
    /\ pc' = "main"
    /\ UNCHANGED <<script, large_content, large_tools, i, payload, sent, received,
                   response, result, jsonCalls, exc, out, exitCode>>

\* if __name__ == "__main__": test_stdin_implementation(), and the first prints
Banner ==
    /\ pc = "main"
    /\ out' = out
              \o <<"Testing stdin implementation with large prompt...",
                   "Prompt size: " \o IntStr(Len(large_content)) \o " bytes">>
              \o (IF script = "tools"
                  THEN <<"Tools count: " \o IntStr(Len(large_tools))>> ELSE <<>>)
    /\ pc' = "build"
    /\ UNCHANGED <<script, large_content, large_tools, i, payload, sent, received,
                   response, result, jsonCalls, exc, exitCode>>

\* payload = {...}
BuildPayload ==
    /\ pc = "build"
    /\ payload' = BuildPayloadValue(script, large_content, large_tools)
    /\ pc' = "post"
    /\ UNCHANGED <<script, large_content, large_tools, i, sent, received, response,
                   result, jsonCalls, exc, out, exitCode>>

\* requests.post(...) is called: the request goes out and the call blocks
Post ==
    /\ pc = "post"
    /\ LET req == PostRequest(payload)
       IN /\ sent' = Append(sent, req)
          /\ received' = Append(received, JsonLoads(req.body))
    /\ pc' = "wait"
    /\ UNCHANGED <<script, large_content, large_tools, i, payload, response,
                   result, jsonCalls, exc, out, exitCode>>

\* requests.post returns a Response
Respond ==
    /\ pc = "wait"
    /\ \E st \in StatusCodes, body \in Bodies :
          response' = [status_code |-> st, text |-> body]
    /\ pc' = "branch"
    /\ UNCHANGED <<script, large_content, large_tools, i, payload, sent, received,
                   result, jsonCalls, exc, out, exitCode>>

\* requests.post raises
PostRaises ==
    /\ pc = "wait"
    /\ \E e \in PostExceptions : exc' = e
    /\ pc' = "except"
    /\ UNCHANGED <<script, large_content, large_tools, i, payload, sent, received,
                   response, result, jsonCalls, out, exitCode>>

\* as if the test were `if response.ok:` (any status below 400)
Branch_Ok ==
    /\ pc = "branch"
    /\ pc' = IF response.status_code < 400 THEN "ok_print" ELSE "err_status"
    /\ UNCHANGED <<script, large_content, large_tools, i, payload, sent, received,
                   response, result, jsonCalls, exc, out, exitCode>>

\* if response.status_code == 200:
Branch ==
    /\ pc = "branch"
    /\ pc' = IF response.status_code = HTTP_OK THEN "ok_print" ELSE "err_status"
    /\ UNCHANGED <<script, large_content, large_tools, i, payload, sent, received,
                   response, result, jsonCalls, exc, out, exitCode>>

\* print('<U+2705> Success! ...')
PrintSuccess ==
    /\ pc = "ok_print"
    /\ out' = Append(out, SuccessLine(script))
    /\ pc' = "json"
    /\ UNCHANGED <<script, large_content, large_tools, i, payload, sent, received,
                   response, result, jsonCalls, exc, exitCode>>

\* result = response.json()
CallJson ==
    /\ pc = "json"
    /\ jsonCalls' = jsonCalls + 1
    /\ LET r == JsonLoads(response.text)
       IN IF r.ok
          THEN /\ result' = r.v
               /\ exc' = exc
               /\ pc' = "show"
          ELSE /\ result' = result
               /\ exc' = [type |-> "JSONDecodeError", msg |-> DecodeErrorStr(r)]
               /\ pc' = "except"
    /\ UNCHANGED <<script, large_content, large_tools, i, payload, sent, received,
                   response, out, exitCode>>

\* print(f'Response: {result["choices"][0]["message"]["content"][:200]}...')
\* print(f'Response length: {len(result["choices"][0]["message"]["content"])}')
PrintResult ==
    /\ pc = "show"
    /\ LET line == ResultLine(script, result)
       IN IF line.ok
          THEN /\ out' = Append(out, line.v.v)
               /\ exc' = exc
               /\ pc' = "return"
          ELSE /\ out' = out
               /\ exc' = line.exc
               /\ pc' = "except"
    /\ UNCHANGED <<script, large_content, large_tools, i, payload, sent, received,
                   response, result, jsonCalls, exitCode>>

\* print(f'<U+274C> Error: {response.status_code}')
PrintErrorStatus ==
    /\ pc = "err_status"
    /\ out' = Append(out, FailMark \o " Error: " \o IntStr(response.status_code))
    /\ pc' = "err_body"
    /\ UNCHANGED <<script, large_content, large_tools, i, payload, sent, received,
                   response, result, jsonCalls, exc, exitCode>>

\* print(response.text)
PrintErrorBody ==
    /\ pc = "err_body"
    /\ out' = Append(out, response.text)
    /\ pc' = "return"
    /\ UNCHANGED <<script, large_content, large_tools, i, payload, sent, received,
                   response, result, jsonCalls, exc, exitCode>>

\* as if the handler tried the request once more after printing
Except_Retry ==
    /\ pc = "except"
    /\ out' = Append(out, FailMark \o " Error: " \o exc.msg)
    /\ sent' = Append(sent, PostRequest(payload))
    /\ received' = Append(received, JsonLoads(PostRequest(payload).body))
    /\ pc' = "return"
    /\ UNCHANGED <<script, large_content, large_tools, i, payload,
                   response, result, jsonCalls, exc, exitCode>>

\* as if the handler ended in `raise`
Except_Reraise ==
    /\ pc = "except"
    /\ out' = Append(out, FailMark \o " Error: " \o exc.msg)
    /\ pc' = "exited"
    /\ exitCode' = 1
    /\ UNCHANGED <<script, large_content, large_tools, i, payload, sent, received,
                   response, result, jsonCalls, exc>>

\* except Exception as e: print(f'<U+274C> Error: {e}'); anything else propagates
\* out of the function and the interpreter exits with a traceback and status 1
Except ==
    /\ pc = "except"
    /\ IF IsInstanceOfException(exc)
       THEN /\ out' = Append(out, FailMark \o " Error: " \o exc.msg)
            /\ pc' = "return"
            /\ exitCode' = exitCode
       ELSE /\ out' = out
            /\ pc' = "exited"
            /\ exitCode' = 1
    /\ UNCHANGED <<script, large_content, large_tools, i, payload, sent, received,
                   response, result, jsonCalls, exc>>

\* the function returns, the module ends, the interpreter exits
Return ==
    /\ pc = "return"
    /\ pc' = "exited"
    /\ exitCode' = 0
    /\ UNCHANGED <<script, large_content, large_tools, i, payload, sent, received,
                   response, result, jsonCalls, exc, out>>

Next ==
    \/ BuildContent
    \/ LoopAppend
    \/ LoopExit
    \/ Banner
    \/ BuildPayload
    \/ Post
    \/ Respond
    \/ PostRaises
    \/ Branch
    \/ PrintSuccess
    \/ CallJson
    \/ PrintResult
    \/ PrintErrorStatus
    \/ PrintErrorBody
    \/ Except
    \/ Return

Spec == Init /\ [][Next]_vars

\* the interpreter runs the next statement, and the blocking call returns
FairSpec == Spec /\ WF_vars(Next)

(***************************************************************************)
(* What the claims speak of                                                *)
(***************************************************************************)
Printed(line) == \E k \in 1..Len(out) : out[k] = line

SuccessPrinted == Printed(SuccessLine(script))

FailurePrinted == \E k \in 1..Len(out) : StartsWith(out[k], 1, FailMark)

LastLine == IF Len(out) = 0 THEN "" ELSE out[Len(out)]

Responded == response # NoResponse

\* the three terminal outcomes of the state machine in the specification
Outcome ==
    IF exc # NoExc THEN "exception"
    ELSE IF response.status_code # HTTP_OK THEN "http-error"
    ELSE "success"

\* d[k] of a dict value known to hold k
Field(d, k) == DictGet(d.v, k)

PayloadBuilt == pc \notin {"content", "loop", "main", "build"}

ConstructionDone == pc \notin {"content", "loop"}

TheMessage == Field(payload, "messages").v[1]

TheContent == Field(TheMessage, "content").v

ToolName(tool) == Field(Field(tool, "function"), "name").v

(***************************************************************************)
(* C1: the success marker is printed only in a run whose outcome is        *)
(* success (status 200, body parsed, content extracted), and no run prints *)
(* both the success marker and a failure marker.                           *)
(***************************************************************************)
C1_SuccessMarkerOnlyOnSuccess ==
    /\ ~(SuccessPrinted /\ FailurePrinted)
    /\ (pc = "exited" /\ SuccessPrinted) => Outcome = "success"

(***************************************************************************)
(* C2: an exception raised inside the try block is caught: the last line   *)
(* printed is the failure marker with str(e), nothing propagates, and the  *)
(* function returns normally.                                              *)
(***************************************************************************)
C2_ExceptionCaughtAndReported ==
    exc # NoExc =>
        /\ pc \in {"except", "return", "exited"}
        /\ pc \in {"return", "exited"} => LastLine = FailMark \o " Error: " \o exc.msg
        /\ pc = "exited" => exitCode = 0

C2_Witness ==
    /\ pc = "exited"
    /\ exc.type = "KeyError"
    /\ LastLine = FailMark \o " Error: 'choices'"

(***************************************************************************)
(* C3: for a response whose status is not 200 the run prints the failure   *)
(* marker with the status code and then the raw body, never prints the     *)
(* success marker and never calls response.json().                         *)
(***************************************************************************)
C3_Non200Reported ==
    (Responded /\ response.status_code # 200) =>
        /\ ~SuccessPrinted
        /\ jsonCalls = 0
        /\ exc = NoExc
        /\ pc \in {"return", "exited"} =>
              /\ Len(out) >= 2
              /\ out[Len(out) - 1] = FailMark \o " Error: " \o ToString(response.status_code)
              /\ out[Len(out)] = response.text

C3_Witness ==
    /\ pc = "exited"
    /\ response = [status_code |-> 500, text |-> "server error"]
    /\ Printed(FailMark \o " Error: 500")
    /\ Printed("server error")

(***************************************************************************)
(* C4 as stated: with status 200 and the body                              *)
(* {"choices":[{"message":{"content":"hello"}}]} each of the two scripts   *)
(* prints the success marker and a line containing "hello".                *)
(***************************************************************************)
C4_BothPrintExcerpt ==
    (pc = "exited" /\ response = [status_code |-> 200, text |-> HelloBody]) =>
        /\ SuccessPrinted
        /\ \E k \in 1..Len(out) : Contains(out[k], "hello")

(***************************************************************************)
(* C4 as amended: with that answer both scripts print the success marker;  *)
(* test-large-stdin.py then prints "Response: hello...", and for any string*)
(* content its first 200 characters at most; test-stdin.py prints          *)
(* "Response length: 5", the length of the content and not its text.       *)
(***************************************************************************)
C4_ExcerptOrLength ==
    /\ (pc = "exited" /\ response = [status_code |-> 200, text |-> HelloBody]) =>
          /\ SuccessPrinted
          /\ out[Len(out) - 1] = SuccessLine(script)
          /\ script = "large" => LastLine = "Response: hello..."
          /\ script = "tools" => LastLine = "Response length: 5"
    /\ (pc = "exited" /\ script = "large" /\ response.status_code = 200
            /\ response.text \in WellFormedBodies) =>
          LET c == Field(Field(Field(result, "choices").v[1], "message"), "content").v
              n == IF Len(c) < 200 THEN Len(c) ELSE 200
          IN /\ LastLine = "Response: " \o SubSeq(c, 1, n) \o "..."
             /\ Len(LastLine) <= 200 + Len("Response: ...")

C4_Witness ==
    /\ pc = "exited"
    /\ script = "tools"
    /\ response = [status_code |-> 200, text |-> HelloBody]
    /\ LastLine = "Response length: 5"

(***************************************************************************)
(* C5: a run issues exactly one POST to the fixed URL with the header      *)
(* Content-Type: application/json; never a second request, whatever the    *)
(* outcome.                                                                *)
(***************************************************************************)
C5_ExactlyOnePost ==
    /\ Len(sent) <= 1
    /\ PayloadBuilt /\ pc # "post" => Len(sent) = 1
    /\ \A k \in 1..Len(sent) :
          /\ sent[k].method = "POST"
          /\ sent[k].url = "http://localhost:8080/v1/chat/completions"
          /\ \E h \in 1..Len(sent[k].headers) :
                sent[k].headers[h] = <<"Content-Type", "application/json">>

C5_Witness ==
    /\ pc = "exited"
    /\ exc.type = "ConnectionError"
    /\ Len(sent) = 1

(***************************************************************************)
(* C6: whatever the endpoint does, the run terminates, and the exit code   *)
(* is 0; no outcome sets another exit code.                                *)
(***************************************************************************)
C6_TerminatesWithZero ==
    /\ <>[](pc = "exited" /\ exitCode = 0)
    /\ [](exitCode \in {-1, 0})

C6_Witness ==
    /\ pc = "exited"
    /\ exitCode = 0
    /\ response.status_code = 200
    /\ exc.type = "JSONDecodeError"

(***************************************************************************)
(* C7: in test-stdin.py, once the construction loop has finished,          *)
(* large_tools has exactly 50 elements, element i is named large_tool_<i>, *)
(* the names are pairwise distinct, and every element has type "function"  *)
(* and required parameters ["param1", "param2"].                           *)
(***************************************************************************)
C7_FiftyDistinctTools ==
    (script = "tools" /\ ConstructionDone) =>
        /\ Len(large_tools) = 50
        /\ \A k \in 0..49 :
              LET tool == large_tools[k + 1]
              IN /\ ToolName(tool) = "large_tool_" \o ToString(k)
                 /\ Field(tool, "type") = PyStr("function")
                 /\ Field(Field(Field(tool, "function"), "parameters"), "required")
                       = PyList(<<PyStr("param1"), PyStr("param2")>>)
        /\ \A j, k \in 1..Len(large_tools) :
              j # k => ToolName(large_tools[j]) # ToolName(large_tools[k])

C7_Witness ==
    /\ script = "tools"
    /\ pc = "exited"
    /\ Len(large_tools) = 50
    /\ ToolName(large_tools[50]) = "large_tool_49"

(***************************************************************************)
(* C8: once built, large_content has length 61,440, consists of one        *)
(* repeated character, and is never modified.                              *)
(***************************************************************************)
C8_FillerFixed ==
    /\ [](pc # "content" =>
            /\ Len(large_content) = 61440
            /\ \A k \in 1..Len(large_content) :
                  Char(large_content, k) = Char(large_content, 1))
    /\ [][pc # "content" => large_content' = large_content]_vars

C8_Witness ==
    /\ pc = "exited"
    /\ Responded
    /\ Len(large_content) = 61440

(***************************************************************************)
(* C9 as stated: in both scripts the payload has the fixed model, exactly  *)
(* one message with role "user", and a content that reports the filler     *)
(* size 61440 and embeds exactly the first 100 characters of the filler.   *)
(***************************************************************************)
C9_ContentReportsSizeAndPrefix ==
    PayloadBuilt =>
        /\ Field(payload, "model") = PyStr("sonnet")
        /\ Len(Field(payload, "messages").v) = 1
        /\ Field(TheMessage, "role") = PyStr("user")
        /\ Contains(TheContent, "61440")
        /\ SubSeq(TheContent, Len(TheContent) - 99, Len(TheContent))
              = SubSeq(large_content, 1, 100)
        /\ CountChar(TheContent, "x") = 100

(***************************************************************************)
(* C9 as amended: in both scripts the payload has the fixed model, exactly *)
(* one message with role "user", and a content that ends with exactly the  *)
(* first 100 characters of the filler; the content reports the filler size *)
(* 61440 in test-large-stdin.py only, test-stdin.py's content holds no     *)
(* size.                                                                   *)
(***************************************************************************)
C9_ContentEmbedsPrefix ==
    PayloadBuilt =>
        /\ Field(payload, "model") = PyStr("sonnet")
        /\ Len(Field(payload, "messages").v) = 1
        /\ Field(TheMessage, "role") = PyStr("user")
        /\ SubSeq(TheContent, Len(TheContent) - 99, Len(TheContent))
              = SubSeq(large_content, 1, 100)
        /\ CountChar(TheContent, "x") = 100
        /\ script = "large" => Contains(TheContent, "Content length: 61440 bytes")
        /\ script = "tools" => ~Contains(TheContent, "61440")

C9_Witness ==
    /\ pc = "post"
    /\ script = "tools"
    /\ TheContent = "Process this large content (first 100 chars): "
                    \o SubSeq(large_content, 1, 100)

(***************************************************************************)
(* C10: the JSON body of the request, decoded, equals the payload built    *)
(* before the request field for field; in test-stdin.py that includes the  *)
(* 50 tool definitions in index order.                                     *)
(***************************************************************************)
C10_BodyDecodesToPayload ==
    /\ Len(received) = Len(sent)
    /\ \A k \in 1..Len(sent) :
          /\ received[k].ok
          /\ received[k].v = payload
          /\ script = "tools" =>
                /\ HasKey(received[k].v.v, "tools")
                /\ Field(received[k].v, "tools") = PyList(large_tools)

C10_Witness ==
    /\ pc = "wait"
    /\ script = "tools"
    /\ Len(sent) = 1
    /\ Len(sent[1].body) > 25000
    /\ Len(Field(received[1].v, "tools").v) = 50

====
